---- MODULE Spec2Model ----
(***************************************************************************)
(* The transaction announcement tracker of src/test/fuzz/txrequest.cpp:    *)
(* the naive reference implementation (class Tester) that the fuzz harness *)
(* runs beside TxRequestTracker, and the tracker itself as spec.md section *)
(* 4.3 describes it (invrequest.h/.cpp are not among the sources).         *)
(*                                                                         *)
(* Not modelled: Tester::m_events and Tester::AdvanceToEvent.  The event   *)
(* queue is read only by AdvanceToEvent, to pick a value for m_now;        *)
(* AdvanceTime below ranges over every value of m_now, forward and         *)
(* backward, so every clock value AdvanceToEvent can produce is covered.   *)
(*                                                                         *)
(* An announcement in state NOTHING stands for the absence of the          *)
(* txid/peer combination: its other fields are dead (ReceivedInv writes    *)
(* all of them before anything reads them), and the model resets them.     *)
(***************************************************************************)
EXTENDS Integers, Sequences, FiniteSets, TLC

\* Bounds of the model (the harness uses 16 txids and 16 peers).
MAX_TXIDS == 2
MAX_PEERS == 3
\* The clock and every reqtime/exptime range over 0..MaxTime.
MaxTime == 1
\* At most MaxSeq announcements are created in a run (m_current_sequence).
MaxSeq == 3

TxIds == 0 .. (MAX_TXIDS - 1)
Peers == 0 .. (MAX_PEERS - 1)
Times == 0 .. MaxTime

VARIABLES
    m_announcements,    \* Tester: [txid][peer] -> Announcement
    m_current_sequence, \* Tester: next sequence number
    m_now,              \* Tester: the current time
    m_tracker,          \* Tester: the TxRequestTracker object being tested
    conforming          \* history: no call so far was one of the three kinds
                        \* on which section 4.3 departs from the Tester

vars == <<m_announcements, m_current_sequence, m_now, m_tracker, conforming>>

-----------------------------------------------------------------------------
(* The priority oracle. TxRequestTracker::ComputePriority is a keyed hash   *)
(* of (txid, peer) whose top bit is set for preferred announcements.  Here  *)
(* the hash is a fixed table, injective per txid, that orders the peers    *)
(* differently for different txids; 16 stands for the top bit.              *)
PriorityHash(txid, peer) == ((peer + 1) * (3 + 2 * txid) + txid) % 11

ComputePriority(txid, peer, preferred) ==
    (IF preferred THEN 16 ELSE 0) + PriorityHash(txid, peer)

-----------------------------------------------------------------------------
(* Tester: the naive data structure.                                        *)

InitAnnouncement ==
    [m_time |-> 0, m_sequence |-> 0, m_state |-> "NOTHING",
     m_preferred |-> FALSE, m_priority |-> 0]

\* Tester::Cleanup, the scan at lines 115-127: "return" when the function
\* returns early, "wipe" when it goes on to wipe the txid.
RECURSIVE CleanupScan(_, _, _, _)
CleanupScan(anns, txid, peer, all_nothing) ==
    IF peer >= MAX_PEERS THEN
        IF all_nothing THEN "return" ELSE "wipe"
    ELSE IF anns[txid][peer].m_state # "NOTHING" THEN
        IF anns[txid][peer].m_state # "COMPLETED" THEN "return"
        ELSE CleanupScan(anns, txid, peer + 1, FALSE)
    ELSE CleanupScan(anns, txid, peer + 1, all_nothing)

\* Tester::Cleanup: delete txids whose only announcements are COMPLETED.
Cleanup(anns, txid) ==
    IF CleanupScan(anns, txid, 0, TRUE) = "wipe"
    THEN [anns EXCEPT ![txid] = [peer \in Peers |-> InitAnnouncement]]
    ELSE anns

\* Tester::GetSelected, the loop over the peers; ret = -1 is "none".
RECURSIVE GetSelectedLoop(_, _, _, _, _, _)
GetSelectedLoop(anns, now, txhash, peer, ret, ret_priority) ==
    IF peer >= MAX_PEERS THEN ret
    ELSE LET ann == anns[txhash][peer] IN
        IF ann.m_state = "REQUESTED" THEN -1
        ELSE IF ann.m_state = "CANDIDATE" /\ ann.m_time <= now
                /\ (ret = -1 \/ ann.m_priority > ret_priority)
             THEN GetSelectedLoop(anns, now, txhash, peer + 1, peer, ann.m_priority)
             ELSE GetSelectedLoop(anns, now, txhash, peer + 1, ret, ret_priority)

\* Variant of GetSelected that takes every candidate for viable, whatever
\* its time.
GetSelected_IgnoreTime(anns, now, txhash) ==
    GetSelectedLoop(anns, MaxTime, txhash, 0, -1, 0)

\* Variant of GetSelected that returns the first viable candidate instead of
\* the one with the highest priority.
GetSelected_FirstViable(anns, now, txhash) ==
    LET viable == {peer \in Peers : /\ anns[txhash][peer].m_state = "CANDIDATE"
                                    /\ anns[txhash][peer].m_time <= now}
    IN IF \E peer \in Peers : anns[txhash][peer].m_state = "REQUESTED" THEN -1
       ELSE IF viable = {} THEN -1
       ELSE CHOOSE peer \in viable : \A other \in viable : peer <= other

\* Variant of GetSelected that does not return -1 at a REQUESTED
\* announcement.
GetSelected_IgnoresRequested(anns, now, txhash) ==
    LET viable == {peer \in Peers : /\ anns[txhash][peer].m_state = "CANDIDATE"
                                    /\ anns[txhash][peer].m_time <= now}
    IN IF viable = {} THEN -1
       ELSE CHOOSE peer \in viable :
               \A other \in viable :
                  anns[txhash][other].m_priority <= anns[txhash][peer].m_priority

\* Variant of GetSelected that takes a candidate for viable only after its
\* time has passed (m_time < now).
GetSelected_StrictTime(anns, now, txhash) ==
    LET viable == {peer \in Peers : /\ anns[txhash][peer].m_state = "CANDIDATE"
                                    /\ anns[txhash][peer].m_time < now}
    IN IF \E peer \in Peers : anns[txhash][peer].m_state = "REQUESTED" THEN -1
       ELSE IF viable = {} THEN -1
       ELSE CHOOSE peer \in viable :
               \A other \in viable :
                  anns[txhash][other].m_priority <= anns[txhash][peer].m_priority

\* Tester::GetSelected: the current best peer to request from (or -1).
GetSelected(anns, now, txhash) == GetSelectedLoop(anns, now, txhash, 0, -1, 0)

\* Tester::DisconnectedPeer on the naive structure, the loop over the txids.
RECURSIVE DisconnectedPeerLoop(_, _, _)
DisconnectedPeerLoop(anns, peer, txid) ==
    IF txid >= MAX_TXIDS THEN anns
    ELSE IF anns[txid][peer].m_state # "NOTHING"
         THEN DisconnectedPeerLoop(
                Cleanup([anns EXCEPT ![txid][peer] = InitAnnouncement], txid),
                peer, txid + 1)
         ELSE DisconnectedPeerLoop(anns, peer, txid + 1)

\* Variant of DisconnectedPeer that leaves the peer's REQUESTED
\* announcements in place.
DisconnectedPeerNaive_KeepsRequested(anns, peer) ==
    LET erased == [txid \in TxIds |->
                     [peer2 \in Peers |->
                        IF peer2 = peer /\ anns[txid][peer2].m_state # "REQUESTED"
                        THEN InitAnnouncement
                        ELSE anns[txid][peer2]]]
    IN [txid \in TxIds |-> Cleanup(erased, txid)[txid]]

\* Variant of DisconnectedPeer that does not call Cleanup.
DisconnectedPeerNaive_NoCleanup(anns, peer) ==
    [txid \in TxIds |->
        [peer2 \in Peers |->
            IF peer2 = peer THEN InitAnnouncement ELSE anns[txid][peer2]]]

DisconnectedPeerNaive(anns, peer) == DisconnectedPeerLoop(anns, peer, 0)

\* Variant of ForgetTxId that leaves a REQUESTED announcement in place.
ForgetTxIdNaive_KeepsRequested(anns, txid) ==
    Cleanup([anns EXCEPT ![txid] =
                [peer \in Peers |->
                    IF anns[txid][peer].m_state = "REQUESTED"
                    THEN anns[txid][peer]
                    ELSE InitAnnouncement]], txid)

\* Tester::ForgetTxId on the naive structure.
ForgetTxIdNaive(anns, txid) ==
    Cleanup([anns EXCEPT ![txid] = [peer \in Peers |-> InitAnnouncement]], txid)

\* Variant of ReceivedInv that computes the priority without the preferred
\* flag.
ReceivedInvNaive_PriorityIgnoresPreferred(anns, sequence, peer, txid, preferred, reqtime) ==
    IF anns[txid][peer].m_state = "NOTHING"
    THEN [anns EXCEPT ![txid][peer] =
            [m_preferred |-> preferred, m_state |-> "CANDIDATE",
             m_time |-> reqtime, m_sequence |-> sequence,
             m_priority |-> ComputePriority(txid, peer, FALSE)]]
    ELSE anns

\* Variant of ReceivedInv that also replaces a COMPLETED announcement.
ReceivedInvNaive_ReplacesCompleted(anns, sequence, peer, txid, preferred, reqtime) ==
    IF anns[txid][peer].m_state \in {"NOTHING", "COMPLETED"}
    THEN [anns EXCEPT ![txid][peer] =
            [m_preferred |-> preferred, m_state |-> "CANDIDATE",
             m_time |-> reqtime, m_sequence |-> sequence,
             m_priority |-> ComputePriority(txid, peer, preferred)]]
    ELSE anns

\* Tester::ReceivedInv on the naive structure: the announcements after the
\* call; sequence is m_current_sequence before it.
ReceivedInvNaive(anns, sequence, peer, txid, preferred, reqtime) ==
    IF anns[txid][peer].m_state = "NOTHING"
    THEN [anns EXCEPT ![txid][peer] =
            [m_preferred |-> preferred, m_state |-> "CANDIDATE",
             m_time |-> reqtime, m_sequence |-> sequence,
             m_priority |-> ComputePriority(txid, peer, preferred)]]
    ELSE anns

\* Tester::ReceivedInv: m_current_sequence after the call.
ReceivedInvSequence(anns, sequence, peer, txid) ==
    IF anns[txid][peer].m_state = "NOTHING" THEN sequence + 1 ELSE sequence

\* Variant of RequestedTx that leaves an existing REQUESTED announcement
\* of the txid as it is.
RequestedTxNaive_KeepsRequested(anns, peer, txid, exptime) ==
    IF anns[txid][peer].m_state = "CANDIDATE"
    THEN [anns EXCEPT ![txid][peer] =
            [anns[txid][peer] EXCEPT !.m_state = "REQUESTED", !.m_time = exptime]]
    ELSE anns

\* Variant of RequestedTx that completes at once a request whose exptime is
\* the smallest time, which is never in the future.
RequestedTxNaive_CompletesElapsed(anns, peer, txid, exptime) ==
    IF anns[txid][peer].m_state = "CANDIDATE"
    THEN [anns EXCEPT ![txid] =
            [peer2 \in Peers |->
                IF peer2 = peer
                THEN [anns[txid][peer2] EXCEPT
                        !.m_state = IF exptime <= 0 THEN "COMPLETED" ELSE "REQUESTED",
                        !.m_time = exptime]
                ELSE IF anns[txid][peer2].m_state = "REQUESTED"
                THEN [anns[txid][peer2] EXCEPT !.m_state = "COMPLETED"]
                ELSE anns[txid][peer2]]]
    ELSE anns

\* Variant of RequestedTx that stores exptime also when the announcement is
\* already REQUESTED.
RequestedTxNaive_UpdatesExptime(anns, peer, txid, exptime) ==
    IF anns[txid][peer].m_state = "CANDIDATE"
    THEN [anns EXCEPT ![txid] =
            [peer2 \in Peers |->
                IF peer2 = peer
                THEN [anns[txid][peer2] EXCEPT
                        !.m_state = "REQUESTED", !.m_time = exptime]
                ELSE IF anns[txid][peer2].m_state = "REQUESTED"
                THEN [anns[txid][peer2] EXCEPT !.m_state = "COMPLETED"]
                ELSE anns[txid][peer2]]]
    ELSE IF anns[txid][peer].m_state = "REQUESTED"
    THEN [anns EXCEPT ![txid][peer].m_time = exptime]
    ELSE anns

\* Variant of RequestedTx that does not store exptime.
RequestedTxNaive_KeepsTime(anns, peer, txid, exptime) ==
    IF anns[txid][peer].m_state = "CANDIDATE"
    THEN [anns EXCEPT ![txid] =
            [peer2 \in Peers |->
                IF peer2 = peer
                THEN [anns[txid][peer2] EXCEPT !.m_state = "REQUESTED"]
                ELSE IF anns[txid][peer2].m_state = "REQUESTED"
                THEN [anns[txid][peer2] EXCEPT !.m_state = "COMPLETED"]
                ELSE anns[txid][peer2]]]
    ELSE anns

\* Variant of RequestedTx that turns the other candidates of the txid into
\* COMPLETED as well.
RequestedTxNaive_CompletesCandidates(anns, peer, txid, exptime) ==
    IF anns[txid][peer].m_state = "CANDIDATE"
    THEN [anns EXCEPT ![txid] =
            [peer2 \in Peers |->
                IF peer2 = peer
                THEN [anns[txid][peer2] EXCEPT
                        !.m_state = "REQUESTED", !.m_time = exptime]
                ELSE IF anns[txid][peer2].m_state \in {"REQUESTED", "CANDIDATE"}
                THEN [anns[txid][peer2] EXCEPT !.m_state = "COMPLETED"]
                ELSE anns[txid][peer2]]]
    ELSE anns

\* Tester::RequestedTx on the naive structure.
RequestedTxNaive(anns, peer, txid, exptime) ==
    IF anns[txid][peer].m_state = "CANDIDATE"
    THEN [anns EXCEPT ![txid] =
            [peer2 \in Peers |->
                IF peer2 = peer
                THEN [anns[txid][peer2] EXCEPT
                        !.m_state = "REQUESTED", !.m_time = exptime]
                ELSE IF anns[txid][peer2].m_state = "REQUESTED"
                THEN [anns[txid][peer2] EXCEPT !.m_state = "COMPLETED"]
                ELSE anns[txid][peer2]]]
    ELSE anns

\* Variant of ReceivedResponse that wipes the candidates of the other peers.
ReceivedResponseNaive_DestroysCandidates(anns, peer, txid) ==
    IF anns[txid][peer].m_state # "NOTHING"
    THEN Cleanup([anns EXCEPT ![txid] =
                    [peer2 \in Peers |->
                        IF peer2 = peer
                        THEN [anns[txid][peer2] EXCEPT !.m_state = "COMPLETED"]
                        ELSE IF anns[txid][peer2].m_state = "CANDIDATE"
                        THEN InitAnnouncement
                        ELSE anns[txid][peer2]]], txid)
    ELSE anns

\* Tester::ReceivedResponse on the naive structure.
ReceivedResponseNaive(anns, peer, txid) ==
    IF anns[txid][peer].m_state # "NOTHING"
    THEN Cleanup([anns EXCEPT ![txid][peer].m_state = "COMPLETED"], txid)
    ELSE anns

\* Variant of ExpiredPeer that takes a request for expired only after its
\* time has passed (m_time < now).
RECURSIVE ExpiredPeer_Strict(_, _, _, _)
ExpiredPeer_Strict(anns, now, txid, peer2) ==
    IF peer2 >= MAX_PEERS THEN -1
    ELSE IF anns[txid][peer2].m_state = "REQUESTED" /\ anns[txid][peer2].m_time < now
         THEN peer2
         ELSE ExpiredPeer_Strict(anns, now, txid, peer2 + 1)

\* Tester::GetRequestable, lines 268-275: the first expired REQUESTED
\* announcement of the txid, from peer2 on (-1 if none).
RECURSIVE ExpiredPeer(_, _, _, _)
ExpiredPeer(anns, now, txid, peer2) ==
    IF peer2 >= MAX_PEERS THEN -1
    ELSE IF anns[txid][peer2].m_state = "REQUESTED" /\ anns[txid][peer2].m_time <= now
         THEN peer2
         ELSE ExpiredPeer(anns, now, txid, peer2 + 1)

\* Tester::GetRequestable, line 272: the expired REQUESTED announcement of
\* the txid, if any, marked as COMPLETED.
MarkExpired(anns, now, txid) ==
    LET peer2 == ExpiredPeer(anns, now, txid, 0)
    IN IF peer2 # -1
       THEN [anns EXCEPT ![txid][peer2].m_state = "COMPLETED"]
       ELSE anns

\* Variant of the loop of GetRequestable that returns the txid for a
\* candidate whose time has come when no other such candidate has a higher
\* priority, instead of asking GetSelected.
RECURSIVE GetRequestableLoop_OwnMaximum(_, _, _, _)
GetRequestableLoop_OwnMaximum(acc, now, peer, txid) ==
    IF txid >= MAX_TXIDS THEN acc
    ELSE LET peer2 == ExpiredPeer(acc.anns, now, txid, 0)
             marked == MarkExpired(acc.anns, now, txid)
             expired == IF peer2 # -1
                        THEN acc.expected_expired \cup {<<peer2, txid>>}
                        ELSE acc.expected_expired
             cleaned == Cleanup(marked, txid)
             ann == cleaned[txid][peer]
             maximum == \A other \in Peers :
                           /\ cleaned[txid][other].m_state # "REQUESTED"
                           /\ (/\ cleaned[txid][other].m_state = "CANDIDATE"
                               /\ cleaned[txid][other].m_time <= now)
                              => cleaned[txid][other].m_priority <= ann.m_priority
             result == IF ann.m_state = "CANDIDATE" /\ ann.m_time <= now /\ maximum
                       THEN acc.result \cup {<<ann.m_sequence, txid>>}
                       ELSE acc.result
         IN GetRequestableLoop_OwnMaximum(
                [anns |-> cleaned, result |-> result, expected_expired |-> expired],
                now, peer, txid + 1)

\* Variant of the loop of GetRequestable that selects on the announcements
\* as they were before the expiry and the cleanup of the txid.
RECURSIVE GetRequestableLoop_SelectsBeforeExpiry(_, _, _, _)
GetRequestableLoop_SelectsBeforeExpiry(acc, now, peer, txid) ==
    IF txid >= MAX_TXIDS THEN acc
    ELSE LET peer2 == ExpiredPeer(acc.anns, now, txid, 0)
             marked == MarkExpired(acc.anns, now, txid)
             expired == IF peer2 # -1
                        THEN acc.expected_expired \cup {<<peer2, txid>>}
                        ELSE acc.expected_expired
             cleaned == Cleanup(marked, txid)
             ann == acc.anns[txid][peer]
             result == IF ann.m_state = "CANDIDATE"
                          /\ GetSelected(acc.anns, now, txid) = peer
                       THEN acc.result \cup {<<ann.m_sequence, txid>>}
                       ELSE acc.result
         IN GetRequestableLoop_SelectsBeforeExpiry(
                [anns |-> cleaned, result |-> result, expected_expired |-> expired],
                now, peer, txid + 1)

\* Tester::GetRequestable, the loop over the txids (lines 266-284). acc holds
\* the announcements, result (a set of <<sequence, txid>>) and
\* expected_expired (a set of <<peer, txid>>).
RECURSIVE GetRequestableLoop(_, _, _, _)
GetRequestableLoop(acc, now, peer, txid) ==
    IF txid >= MAX_TXIDS THEN acc
    ELSE LET peer2 == ExpiredPeer(acc.anns, now, txid, 0)
             marked == MarkExpired(acc.anns, now, txid)
             expired == IF peer2 # -1
                        THEN acc.expected_expired \cup {<<peer2, txid>>}
                        ELSE acc.expected_expired
             cleaned == Cleanup(marked, txid)
             ann == cleaned[txid][peer]
             result == IF ann.m_state = "CANDIDATE" /\ GetSelected(cleaned, now, txid) = peer
                       THEN acc.result \cup {<<ann.m_sequence, txid>>}
                       ELSE acc.result
         IN GetRequestableLoop(
                [anns |-> cleaned, result |-> result, expected_expired |-> expired],
                now, peer, txid + 1)

\* Variant of the order of std::sort that compares the second component
\* first.
TupleLess_ByTxid(a, b) == a[2] < b[2] \/ (a[2] = b[2] /\ a[1] < b[1])

\* std::sort of a vector of distinct tuples (lexicographic order).
TupleLess(a, b) == a[1] < b[1] \/ (a[1] = b[1] /\ a[2] < b[2])

RECURSIVE SortTuples(_)
SortTuples(S) ==
    IF S = {} THEN <<>>
    ELSE LET least == CHOOSE a \in S : \A b \in S \ {a} : TupleLess(a, b)
         IN <<least>> \o SortTuples(S \ {least})

\* Tester::GetRequestable on the naive structure: the announcements after
\* the call, the expected result (txids in the order of result, sorted by
\* sequence number) and the expected expired pairs (sorted).
GetRequestableNaive(anns, now, peer) ==
    LET acc == GetRequestableLoop(
                  [anns |-> anns, result |-> {}, expected_expired |-> {}],
                  now, peer, 0)
        sorted == SortTuples(acc.result)
    IN [anns |-> acc.anns,
        result |-> [pos \in 1 .. Len(sorted) |-> sorted[pos][2]],
        expected_expired |-> SortTuples(acc.expected_expired)]

\* Tester::Check, the counters of the naive structure (lines 304-321).
Tracked(anns, peer) ==
    Cardinality({txid \in TxIds : anns[txid][peer].m_state # "NOTHING"})
InFlight(anns, peer) ==
    Cardinality({txid \in TxIds : anns[txid][peer].m_state = "REQUESTED"})
Candidates(anns, peer) ==
    Cardinality({txid \in TxIds : anns[txid][peer].m_state = "CANDIDATE"})
RECURSIVE TotalLoop(_, _)
TotalLoop(anns, peer) ==
    IF peer >= MAX_PEERS THEN 0 ELSE Tracked(anns, peer) + TotalLoop(anns, peer + 1)
Total(anns) == TotalLoop(anns, 0)

-----------------------------------------------------------------------------
(* TxRequestTracker (m_tracker), after spec.md sections 3 and 4.3: the      *)
(* announcements with their five states, and the next sequence number.      *)

NoAnnouncement ==
    [state |-> "Absent", time |-> 0, sequence |-> 0, preferred |-> FALSE,
     priority |-> 0]

CandidateStates == {"CandidateDelayed", "CandidateReady", "CandidateBest"}

new_tracker ==
    [anns |-> [item \in TxIds |-> [peer \in Peers |-> NoAnnouncement]],
     next |-> 0]

\* Section 3, invariant 5: once an item has only Completed announcements,
\* all of them are discarded.
item_cleanup(anns, item) ==
    IF /\ \E p \in Peers : anns[item][p].state # "Absent"
       /\ \A p \in Peers : anns[item][p].state \in {"Absent", "Completed"}
    THEN [i \in TxIds |-> IF i = item THEN [p \in Peers |-> NoAnnouncement] ELSE anns[i]]
    ELSE anns

\* Section 3, invariant 2, re-established for one item: the CandidateBest
\* is the highest-priority announcement among CandidateReady/CandidateBest
\* when no Requested exists (sequence breaks ties), and there is none
\* otherwise.
reevaluate_best(anns, item) ==
    LET ready == {p \in Peers : anns[item][p].state \in {"CandidateReady", "CandidateBest"}}
        requested == \E p \in Peers : anns[item][p].state = "Requested"
        Better(p, q) ==
            \/ anns[item][p].priority > anns[item][q].priority
            \/ /\ anns[item][p].priority = anns[item][q].priority
               /\ anns[item][p].sequence <= anns[item][q].sequence
        best == IF requested \/ ready = {} THEN -1
                ELSE CHOOSE p \in ready : \A q \in ready : Better(p, q)
    IN [i \in TxIds |-> [p \in Peers |->
          IF i = item /\ p \in ready
          THEN [anns[i][p] EXCEPT
                  !.state = IF p = best THEN "CandidateBest" ELSE "CandidateReady"]
          ELSE anns[i][p]]]

\* Section 4.3, received_inv(peer, item, preferred, reqtime), called at now.
received_inv(tr, now, peer, item, preferred, reqtime) ==
    IF tr.anns[item][peer].state # "Absent" THEN tr
    ELSE
      LET priority == ComputePriority(item, peer, preferred)
          state == IF reqtime > now THEN "CandidateDelayed" ELSE "CandidateReady"
          created == [tr.anns EXCEPT ![item][peer] =
                        [state |-> state, time |-> reqtime, sequence |-> tr.next,
                         preferred |-> preferred, priority |-> priority]]
          bests == {p \in Peers : tr.anns[item][p].state = "CandidateBest"}
          requested == \E p \in Peers : tr.anns[item][p].state = "Requested"
          promote ==
              /\ state = "CandidateReady"
              /\ IF bests = {} THEN ~requested
                 ELSE \A p \in bests : priority > tr.anns[item][p].priority
      IN [anns |->
            IF promote
            THEN [created EXCEPT ![item] =
                    [p \in Peers |->
                       IF p = peer THEN [created[item][p] EXCEPT !.state = "CandidateBest"]
                       ELSE IF p \in bests
                       THEN [created[item][p] EXCEPT !.state = "CandidateReady"]
                       ELSE created[item][p]]]
            ELSE created,
          next |-> tr.next + 1]

\* Section 4.3, requested_tx(peer, item, exptime).
requested_tx(tr, peer, item, exptime) ==
    IF tr.anns[item][peer].state \in CandidateStates
    THEN [tr EXCEPT !.anns[item] =
            [p \in Peers |->
               IF p = peer
               THEN [tr.anns[item][p] EXCEPT !.state = "Requested", !.time = exptime]
               ELSE IF tr.anns[item][p].state = "Requested"
               THEN [tr.anns[item][p] EXCEPT !.state = "Completed"]
               ELSE tr.anns[item][p]]]
    ELSE tr

\* Section 4.3, received_response(peer, item).
received_response(tr, peer, item) ==
    IF tr.anns[item][peer].state = "Absent" THEN tr
    ELSE
      LET marked == [tr.anns EXCEPT ![item][peer].state = "Completed"]
          destroyed == [marked EXCEPT ![item] =
                          [p \in Peers |->
                             IF p # peer /\ marked[item][p].state \in CandidateStates
                             THEN NoAnnouncement
                             ELSE marked[item][p]]]
      IN [tr EXCEPT !.anns = item_cleanup(destroyed, item)]

\* Section 4.3, forget_item(item).
forget_item(tr, item) ==
    [tr EXCEPT !.anns[item] = [p \in Peers |-> NoAnnouncement]]

\* item_cleanup and reevaluate_best for every item of a set.
RECURSIVE restore_items(_, _)
restore_items(anns, items) ==
    IF items = {} THEN anns
    ELSE LET item == CHOOSE i \in items : TRUE
         IN restore_items(reevaluate_best(item_cleanup(anns, item), item),
                          items \ {item})

\* Section 4.3, disconnected_peer(peer).
disconnected_peer(tr, peer) ==
    LET affected == {item \in TxIds : tr.anns[item][peer].state # "Absent"}
        erased == [item \in TxIds |-> [tr.anns[item] EXCEPT ![peer] = NoAnnouncement]]
    IN [tr EXCEPT !.anns = restore_items(erased, affected)]

\* Section 4.3, get_requestable(peer, now): the tracker after the call, the
\* selected items in order and the expired (peer, item) pairs.
get_requestable(tr, peer, now) ==
    LET Expires(item, p) ==
            tr.anns[item][p].state = "Requested" /\ tr.anns[item][p].time <= now
        Promotes(item, p) ==
            tr.anns[item][p].state = "CandidateDelayed" /\ tr.anns[item][p].time <= now
        expired == {pi \in Peers \X TxIds : Expires(pi[2], pi[1])}
        stepped == [item \in TxIds |-> [p \in Peers |->
                      IF Expires(item, p)
                      THEN [tr.anns[item][p] EXCEPT !.state = "Completed"]
                      ELSE IF Promotes(item, p)
                      THEN [tr.anns[item][p] EXCEPT !.state = "CandidateReady"]
                      ELSE tr.anns[item][p]]]
        affected == {item \in TxIds :
                        \E p \in Peers : Expires(item, p) \/ Promotes(item, p)}
        anns == restore_items(stepped, affected)
        collected == {<<anns[item][peer].sequence, item>> :
                        item \in {i \in TxIds : anns[i][peer].state = "CandidateBest"}}
        sorted == SortTuples(collected)
    IN [tracker |-> [tr EXCEPT !.anns = anns],
        selected |-> [pos \in 1 .. Len(sorted) |-> sorted[pos][2]],
        expired |-> SortTuples(expired)]

\* Section 6, the accessors.
size(tr) ==
    Cardinality({pi \in Peers \X TxIds : tr.anns[pi[2]][pi[1]].state # "Absent"})
count(tr, peer) ==
    Cardinality({item \in TxIds : tr.anns[item][peer].state # "Absent"})
count_in_flight(tr, peer) ==
    Cardinality({item \in TxIds : tr.anns[item][peer].state = "Requested"})
count_candidates(tr, peer) ==
    Cardinality({item \in TxIds : tr.anns[item][peer].state \in CandidateStates})

-----------------------------------------------------------------------------
(* The public member functions of Tester: each performs the operation on    *)
(* the naive structure and on m_tracker.                                    *)

\* A requested_tx that takes effect while another peer's announcement is the
\* item's CandidateBest.
RequestBesideBest(peer, txid) ==
    /\ m_tracker.anns[txid][peer].state \in CandidateStates
    /\ \E p \in Peers \ {peer} : m_tracker.anns[txid][p].state = "CandidateBest"

\* A received_response that takes effect while another peer has a candidate
\* announcement for the item.
ResponseBesideCandidate(peer, txid) ==
    /\ m_tracker.anns[txid][peer].state # "Absent"
    /\ \E p \in Peers \ {peer} : m_tracker.anns[txid][p].state \in CandidateStates

Init ==
    /\ m_announcements = [txid \in TxIds |-> [peer \in Peers |-> InitAnnouncement]]
    /\ m_current_sequence = 0
    /\ m_now = 0
    /\ m_tracker = new_tracker
    /\ conforming = TRUE

\* Tester::AdvanceTime: the clock moves by offset, forward or backward.
AdvanceTime(offset) ==
    /\ offset # 0
    /\ m_now + offset \in Times
    /\ m_now' = m_now + offset
    /\ conforming' = (conforming /\ offset > 0)
    /\ UNCHANGED <<m_announcements, m_current_sequence, m_tracker>>

DisconnectedPeer(peer) ==
    /\ m_announcements' = DisconnectedPeerNaive(m_announcements, peer)
    /\ m_tracker' = disconnected_peer(m_tracker, peer)
    /\ UNCHANGED <<m_current_sequence, m_now, conforming>>

ForgetTxId(txid) ==
    /\ m_announcements' = ForgetTxIdNaive(m_announcements, txid)
    /\ m_tracker' = forget_item(m_tracker, txid)
    /\ UNCHANGED <<m_current_sequence, m_now, conforming>>

ReceivedInv(peer, txid, preferred, reqtime) ==
    /\ m_current_sequence < MaxSeq
    /\ m_tracker.next < MaxSeq
    /\ m_announcements' =
         ReceivedInvNaive(m_announcements, m_current_sequence, peer, txid,
                          preferred, reqtime)
    /\ m_current_sequence' =
         ReceivedInvSequence(m_announcements, m_current_sequence, peer, txid)
    /\ m_tracker' = received_inv(m_tracker, m_now, peer, txid, preferred, reqtime)
    /\ UNCHANGED <<m_now, conforming>>

RequestedTx(peer, txid, exptime) ==
    /\ m_announcements' = RequestedTxNaive(m_announcements, peer, txid, exptime)
    /\ m_tracker' = requested_tx(m_tracker, peer, txid, exptime)
    /\ conforming' = (conforming /\ ~RequestBesideBest(peer, txid))
    /\ UNCHANGED <<m_current_sequence, m_now>>

ReceivedResponse(peer, txid) ==
    /\ m_announcements' = ReceivedResponseNaive(m_announcements, peer, txid)
    /\ m_tracker' = received_response(m_tracker, peer, txid)
    /\ conforming' = (conforming /\ ~ResponseBesideCandidate(peer, txid))
    /\ UNCHANGED <<m_current_sequence, m_now>>

GetRequestable(peer) ==
    /\ m_announcements' = GetRequestableNaive(m_announcements, m_now, peer).anns
    /\ m_tracker' = get_requestable(m_tracker, peer, m_now).tracker
    /\ UNCHANGED <<m_current_sequence, m_now, conforming>>

\* test_one_input: any sequence of the commands. The announcements of this
\* specification are all preferred ones (commands 5 and 7).
Next ==
    \/ \E offset \in (0 - MaxTime) .. MaxTime : AdvanceTime(offset)
    \/ \E peer \in Peers : GetRequestable(peer)
    \/ \E peer \in Peers : DisconnectedPeer(peer)
    \/ \E txid \in TxIds : ForgetTxId(txid)
    \/ \E peer \in Peers, txid \in TxIds, preferred \in {TRUE}, reqtime \in Times :
          ReceivedInv(peer, txid, preferred, reqtime)
    \/ \E peer \in Peers, txid \in TxIds, exptime \in Times :
          RequestedTx(peer, txid, exptime)
    \/ \E peer \in Peers, txid \in TxIds : ReceivedResponse(peer, txid)

Spec == Init /\ [][Next]_vars

\* test_one_input with preferred and non-preferred announcements (commands
\* 5 to 8), for the txids of PreferredTxIds.
PreferredTxIds == {0}

NextPreferred ==
    \/ \E offset \in (0 - MaxTime) .. MaxTime : AdvanceTime(offset)
    \/ \E peer \in Peers : GetRequestable(peer)
    \/ \E peer \in Peers : DisconnectedPeer(peer)
    \/ \E txid \in PreferredTxIds : ForgetTxId(txid)
    \/ \E peer \in Peers, txid \in PreferredTxIds, preferred \in BOOLEAN,
          reqtime \in Times :
          ReceivedInv(peer, txid, preferred, reqtime)
    \/ \E peer \in Peers, txid \in PreferredTxIds, exptime \in Times :
          RequestedTx(peer, txid, exptime)
    \/ \E peer \in Peers, txid \in PreferredTxIds : ReceivedResponse(peer, txid)

SpecPreferred == Init /\ [][NextPreferred]_vars

-----------------------------------------------------------------------------
(* Tester::GetRequestable and Tester::Check: what the harness asserts.      *)

\* The asserts of Tester::GetRequestable (lines 293-299) for one peer.
GetRequestableAgrees(peer) ==
    LET naive == GetRequestableNaive(m_announcements, m_now, peer)
        actual == get_requestable(m_tracker, peer, m_now)
    IN /\ actual.expired = naive.expected_expired
       /\ Len(naive.result) = Len(actual.selected)
       /\ \A pos \in 1 .. Len(actual.selected) :
             naive.result[pos] = actual.selected[pos]

\* The asserts of Tester::Check (lines 304-323).
CheckAgrees ==
    /\ \A peer \in Peers :
          /\ count(m_tracker, peer) = Tracked(m_announcements, peer)
          /\ count_in_flight(m_tracker, peer) = InFlight(m_announcements, peer)
          /\ count_candidates(m_tracker, peer) = Candidates(m_announcements, peer)
    /\ size(m_tracker) = Total(m_announcements)

-----------------------------------------------------------------------------
(* The claims about the naive structure.                                    *)

Range(seq) == {seq[pos] : pos \in 1 .. Len(seq)}

\* The candidate sub-state an announcement of the naive structure stands
\* for at time now: GetSelected treats a CANDIDATE as viable when its time
\* has come, and GetRequestable returns it when GetSelected picks its peer.
SubState(anns, now, txid, peer) ==
    IF anns[txid][peer].m_state # "CANDIDATE" THEN anns[txid][peer].m_state
    ELSE IF anns[txid][peer].m_time > now THEN "CandidateDelayed"
    ELSE IF GetSelected(anns, now, txid) = peer THEN "CandidateBest"
    ELSE "CandidateReady"

\* C2: in every reachable state each item has at most one announcement in
\* state Requested, whatever calls were made (requested_tx for pairs that
\* get_requestable never returned included).
C2_SingleInFlight ==
    \A txid \in TxIds :
        Cardinality({peer \in Peers :
                        m_announcements[txid][peer].m_state = "REQUESTED"}) <= 1

\* C2 witness: a requested_tx took effect for a peer that was not the selected
\* one while another peer's request was in flight: the item holds a REQUESTED
\* announcement, a COMPLETED one of higher priority and a viable CANDIDATE of
\* higher priority than the REQUESTED one.
C2_Witness ==
    \E txid \in TxIds, p, q, r \in Peers :
        /\ m_announcements[txid][p].m_state = "REQUESTED"
        /\ m_announcements[txid][q].m_state = "COMPLETED"
        /\ m_announcements[txid][r].m_state = "CANDIDATE"
        /\ m_announcements[txid][r].m_time <= m_now
        /\ m_announcements[txid][r].m_priority > m_announcements[txid][p].m_priority

\* The announcement get_requestable selects, stated on the announcements
\* before the call: a candidate whose time has come, of higher priority than
\* every other such candidate of the item, the item having no Requested
\* announcement that is not expired at now.
IsSelected(anns, now, txid, peer) ==
    /\ anns[txid][peer].m_state = "CANDIDATE"
    /\ anns[txid][peer].m_time <= now
    /\ \A q \in Peers \ {peer} :
          (anns[txid][q].m_state = "CANDIDATE" /\ anns[txid][q].m_time <= now)
              => anns[txid][q].m_priority < anns[txid][peer].m_priority
    /\ ~\E q \in Peers :
          anns[txid][q].m_state = "REQUESTED" /\ anns[txid][q].m_time > now

\* C3: get_requestable(peer, now) returns exactly the items for which peer's
\* announcement is the selected one, in ascending order of sequence number
\* (the order in which the announcements were created).
C3_RequestableIsSelectedInSequenceOrder ==
    \A peer \in Peers :
        LET result == GetRequestableNaive(m_announcements, m_now, peer).result
        IN /\ Range(result) =
                {txid \in TxIds : IsSelected(m_announcements, m_now, txid, peer)}
           /\ \A i, j \in 1 .. Len(result) :
                 i < j => m_announcements[result[i]][peer].m_sequence
                            < m_announcements[result[j]][peer].m_sequence

\* C3 witness: get_requestable returns two items for a peer, the one with the
\* larger txid first because it was announced first, and for one of them
\* another peer holds a viable candidate of lower priority.
C3_Witness ==
    \E peer \in Peers :
        LET result == GetRequestableNaive(m_announcements, m_now, peer).result
        IN /\ Len(result) = 2
           /\ result[1] > result[2]
           /\ \E q \in Peers \ {peer} :
                 /\ m_announcements[result[1]][q].m_state = "CANDIDATE"
                 /\ m_announcements[result[1]][q].m_time <= m_now

\* C4: requested_tx(peer, item, exptime) on an announcement in any candidate
\* sub-state (CandidateDelayed with its reqtime in the future, CandidateReady
\* or CandidateBest) makes it Requested with time = exptime, and another
\* peer's Requested announcement for the item becomes Completed.
C4_RequestedTxFromAnyCandidate ==
    \A peer \in Peers, txid \in TxIds, exptime \in Times :
        SubState(m_announcements, m_now, txid, peer)
                \in {"CandidateDelayed", "CandidateReady", "CandidateBest"}
        => LET after == RequestedTxNaive(m_announcements, peer, txid, exptime)
           IN /\ after[txid][peer].m_state = "REQUESTED"
              /\ after[txid][peer].m_time = exptime
              /\ \A q \in Peers \ {peer} :
                    m_announcements[txid][q].m_state = "REQUESTED"
                        => after[txid][q].m_state = "COMPLETED"

\* C4 witness: a CandidateDelayed announcement whose reqtime is in the future
\* is requested while another peer's request for the item is in flight, and
\* the call moves the one to REQUESTED and the other to COMPLETED.
C4_Witness ==
    \E peer \in Peers, txid \in TxIds, exptime \in Times, q \in Peers :
        /\ q # peer
        /\ SubState(m_announcements, m_now, txid, peer) = "CandidateDelayed"
        /\ m_announcements[txid][peer].m_time > m_now
        /\ exptime # m_announcements[txid][peer].m_time
        /\ m_announcements[txid][q].m_state = "REQUESTED"
        /\ LET after == RequestedTxNaive(m_announcements, peer, txid, exptime)
           IN /\ after[txid][peer].m_state = "REQUESTED"
              /\ after[txid][q].m_state = "COMPLETED"

\* C5 as stated: when requested_tx takes effect, every other candidate of the
\* item keeps exactly the sub-state (CandidateDelayed, CandidateReady or
\* CandidateBest) and the priority it had before the call.
C5_CandidatesKeepSubState_AsStated ==
    \A peer \in Peers, txid \in TxIds, exptime \in Times :
        m_announcements[txid][peer].m_state = "CANDIDATE"
        => LET after == RequestedTxNaive(m_announcements, peer, txid, exptime)
           IN \A q \in Peers \ {peer} :
                m_announcements[txid][q].m_state = "CANDIDATE"
                => /\ SubState(after, m_now, txid, q)
                        = SubState(m_announcements, m_now, txid, q)
                   /\ after[txid][q].m_priority = m_announcements[txid][q].m_priority

\* C5 (amended): when requested_tx takes effect, every other candidate of the
\* item stays a candidate with the time, priority, sequence and preferred flag
\* it had; a CandidateDelayed stays CandidateDelayed and a CandidateReady
\* stays CandidateReady, but another peer's CandidateBest becomes
\* CandidateReady: no announcement is CandidateBest while a request is in
\* flight.
C5_CandidatesKeepPriority ==
    \A peer \in Peers, txid \in TxIds, exptime \in Times :
        m_announcements[txid][peer].m_state = "CANDIDATE"
        => LET after == RequestedTxNaive(m_announcements, peer, txid, exptime)
           IN \A q \in Peers \ {peer} :
                m_announcements[txid][q].m_state = "CANDIDATE"
                => /\ after[txid][q] = m_announcements[txid][q]
                   /\ SubState(after, m_now, txid, q) =
                        IF SubState(m_announcements, m_now, txid, q) = "CandidateBest"
                        THEN "CandidateReady"
                        ELSE SubState(m_announcements, m_now, txid, q)

\* C5 witness: requested_tx takes effect for a peer while a second peer holds
\* the item's CandidateBest and a third a CandidateDelayed.
C5_Witness ==
    \E peer \in Peers, txid \in TxIds, q, r \in Peers :
        /\ m_announcements[txid][peer].m_state = "CANDIDATE"
        /\ q # peer /\ r # peer
        /\ SubState(m_announcements, m_now, txid, q) = "CandidateBest"
        /\ SubState(m_announcements, m_now, txid, r) = "CandidateDelayed"
        /\ LET after == RequestedTxNaive(m_announcements, peer, txid, m_now)
           IN /\ after[txid][peer].m_state = "REQUESTED"
              /\ SubState(after, m_now, txid, q) = "CandidateReady"
              /\ SubState(after, m_now, txid, r) = "CandidateDelayed"

\* Scenario S3 of section 8 after requested_tx for the better peer: the only
\* announcements are those of two peers for one item, worse a viable
\* CANDIDATE and better, of higher priority, REQUESTED.
TwoPeersAnnouncedBetterRequested(txid, worse, better) ==
    /\ worse # better
    /\ m_announcements[txid][worse].m_state = "CANDIDATE"
    /\ m_announcements[txid][worse].m_time <= m_now
    /\ m_announcements[txid][better].m_state = "REQUESTED"
    /\ m_announcements[txid][better].m_priority
            > m_announcements[txid][worse].m_priority
    /\ Total(m_announcements) = 2

\* C6 as stated: after received_response(peer, item) on an existing
\* announcement no other peer holds a candidate for the item, so that no peer
\* is offered it; and after two peers announced an item, the higher-priority
\* one was requested and responds, size() = 0.
C6_ResponseDestroysCandidates_AsStated ==
    \A peer \in Peers, txid \in TxIds :
        m_announcements[txid][peer].m_state # "NOTHING"
        => LET after == ReceivedResponseNaive(m_announcements, peer, txid)
           IN /\ \A q \in Peers \ {peer} : after[txid][q].m_state # "CANDIDATE"
              /\ \A q \in Peers :
                    txid \notin Range(GetRequestableNaive(after, m_now, q).result)
              /\ \A worse \in Peers :
                    TwoPeersAnnouncedBetterRequested(txid, worse, peer)
                        => Total(after) = 0

\* C6 (amended): after received_response(peer, item) on an existing
\* announcement, that announcement is Completed while the item keeps another
\* announcement that is not Completed, and the item is erased otherwise; the
\* candidate announcements of all other peers for the item are kept as they
\* were, and the item is still offered to the peer selected among them. After
\* two peers announced an item, the higher-priority one was requested and
\* responds, size() = 2 (the Completed announcement and the other peer's
\* candidate) and get_requestable returns the item for the other peer.
C6_ResponseKeepsCandidates ==
    \A peer \in Peers, txid \in TxIds :
        m_announcements[txid][peer].m_state # "NOTHING"
        => LET after == ReceivedResponseNaive(m_announcements, peer, txid)
               others == {q \in Peers \ {peer} :
                            m_announcements[txid][q].m_state
                                \notin {"NOTHING", "COMPLETED"}}
           IN /\ \A q \in Peers \ {peer} :
                    m_announcements[txid][q].m_state = "CANDIDATE"
                        => after[txid][q] = m_announcements[txid][q]
              /\ IF others # {}
                 THEN after[txid][peer].m_state = "COMPLETED"
                 ELSE \A q \in Peers : after[txid][q].m_state = "NOTHING"
              /\ \A q \in Peers \ {peer} :
                    (/\ IsSelected(after, m_now, txid, q)
                     /\ \A r \in Peers : after[txid][r].m_state # "REQUESTED")
                        => txid \in Range(GetRequestableNaive(after, m_now, q).result)
              /\ \A worse \in Peers :
                    TwoPeersAnnouncedBetterRequested(txid, worse, peer)
                        => /\ Total(after) = 2
                           /\ GetRequestableNaive(after, m_now, worse).result = <<txid>>

\* C6 witness: two peers announced an item, the higher-priority one was
\* requested, and its response leaves the other peer's candidate in place.
C6_Witness ==
    \E txid \in TxIds, worse, better \in Peers :
        /\ TwoPeersAnnouncedBetterRequested(txid, worse, better)
        /\ LET after == ReceivedResponseNaive(m_announcements, better, txid)
           IN /\ after[txid][better].m_state = "COMPLETED"
              /\ after[txid][worse].m_state = "CANDIDATE"

\* The case of C7: requested_tx(p1, txid, exptime) takes effect with
\* exptime <= now while p2 holds a candidate for the item whose time has come.
FallbackCase(p1, p2, txid, exptime) ==
    /\ p1 # p2
    /\ exptime <= m_now
    /\ m_announcements[txid][p1].m_state = "CANDIDATE"
    /\ SubState(RequestedTxNaive(m_announcements, p1, txid, exptime),
                m_now, txid, p2) = "CandidateReady"

\* What C7 promises: get_requestable(p2, now) right after the requested_tx
\* returns the item for p2 and reports (p1, item) as expired.
FallbackHappens(p1, p2, txid, exptime) ==
    LET requested == RequestedTxNaive(m_announcements, p1, txid, exptime)
        got == GetRequestableNaive(requested, m_now, p2)
    IN /\ txid \in Range(got.result)
       /\ <<p1, txid>> \in Range(got.expected_expired)

\* C7 as stated: for all peers p1 # p2, after requested_tx(p1, i, exptime)
\* with exptime <= now followed by get_requestable(p2, now), where p2 held a
\* CandidateReady for i, the result for p2 includes i and expired contains
\* (p1, i).
C7_Fallback_AsStated ==
    \A p1, p2 \in Peers, txid \in TxIds, exptime \in Times :
        FallbackCase(p1, p2, txid, exptime) => FallbackHappens(p1, p2, txid, exptime)

\* C7 (amended): as C7, where p2's CandidateReady has the highest priority
\* among the candidates of i whose time has come.
C7_Fallback ==
    \A p1, p2 \in Peers, txid \in TxIds, exptime \in Times :
        (/\ FallbackCase(p1, p2, txid, exptime)
         /\ \A q \in Peers \ {p1, p2} :
               (/\ m_announcements[txid][q].m_state = "CANDIDATE"
                /\ m_announcements[txid][q].m_time <= m_now)
                    => m_announcements[txid][q].m_priority
                            < m_announcements[txid][p2].m_priority)
        => FallbackHappens(p1, p2, txid, exptime)

\* C7 witness: p1 is the selected peer and is requested with exptime <= now;
\* p2 is the better of two other peers with a viable candidate, and the next
\* get_requestable(p2, now) falls back to it.
C7_Witness ==
    \E p1, p2, p3 \in Peers, txid \in TxIds, exptime \in Times :
        /\ p3 \notin {p1, p2}
        /\ SubState(m_announcements, m_now, txid, p1) = "CandidateBest"
        /\ FallbackCase(p1, p2, txid, exptime)
        /\ FallbackCase(p1, p3, txid, exptime)
        /\ m_announcements[txid][p3].m_priority < m_announcements[txid][p2].m_priority
        /\ FallbackHappens(p1, p2, txid, exptime)

\* The (peer, txid) pairs whose announcement is REQUESTED with time <= now.
ExpiredPairs(anns, now) ==
    {pair \in Peers \X TxIds :
        /\ anns[pair[2]][pair[1]].m_state = "REQUESTED"
        /\ anns[pair[2]][pair[1]].m_time <= now}

\* get_requestable(peer, now) reports in expired exactly the pairs, of any
\* peer, that are Requested with time <= now, and no get_requestable that
\* follows it, for any peer and any now, reports one of them again.
ExpiredExactlyOnce(peer) ==
    LET got == GetRequestableNaive(m_announcements, m_now, peer)
        pairs == ExpiredPairs(m_announcements, m_now)
    IN /\ Range(got.expected_expired) = pairs
       /\ \A pair \in pairs, peer2 \in Peers, now2 \in Times :
             pair \notin
                Range(GetRequestableNaive(got.anns, now2, peer2).expected_expired)

\* An announcement becomes REQUESTED only by a requested_tx for its pair that
\* takes effect.
RequestedOnlyByRequestedTx ==
    \A peer \in Peers, txid \in TxIds :
        (/\ m_announcements[txid][peer].m_state # "REQUESTED"
         /\ m_announcements'[txid][peer].m_state = "REQUESTED")
        => /\ m_announcements[txid][peer].m_state = "CANDIDATE"
           /\ \E exptime \in Times :
                 m_announcements' =
                    RequestedTxNaive(m_announcements, peer, txid, exptime)

\* C8: get_requestable(peer, now) reports in expired exactly the pairs, of
\* any peer and not only the queried one, whose announcement is Requested
\* with time <= now, and turns each into Completed (after which the item
\* cleanup of the same call keeps it as Completed beside an announcement
\* that is not Completed, and erases it with its item otherwise); a pair
\* reported as expired is not reported again by later get_requestable calls
\* unless a new requested_tx for it took effect in between.
C8_ExpiredBecomeCompleted ==
    /\ [](\A peer \in Peers :
            /\ ExpiredExactlyOnce(peer)
            /\ \A pair \in ExpiredPairs(m_announcements, m_now) :
                  LET after == GetRequestableNaive(m_announcements, m_now, peer).anns
                  IN /\ MarkExpired(m_announcements, m_now, pair[2])
                            [pair[2]][pair[1]].m_state = "COMPLETED"
                     /\ IF \E q \in Peers :
                             after[pair[2]][q].m_state \in {"CANDIDATE", "REQUESTED"}
                        THEN after[pair[2]][pair[1]].m_state = "COMPLETED"
                        ELSE \A q \in Peers : after[pair[2]][q].m_state = "NOTHING")
    /\ [][RequestedOnlyByRequestedTx]_vars

\* C8 witness: get_requestable for one peer expires the request of another
\* peer, which stays as COMPLETED beside a candidate, and the request of a
\* third pair on another item, which is erased.
C8_Witness ==
    \E peer \in Peers, kept, erased \in ExpiredPairs(m_announcements, m_now) :
        LET after == GetRequestableNaive(m_announcements, m_now, peer).anns
        IN /\ kept[1] # peer
           /\ after[kept[2]][kept[1]].m_state = "COMPLETED"
           /\ after[erased[2]][erased[1]].m_state = "NOTHING"

\* C9: received_inv(peer, item, preferred', reqtime') for a pair that already
\* has an announcement, in any state, changes nothing: every announcement
\* (state, preferred flag, time, priority, sequence) and the sequence counter
\* are as before, and with them all counters and later results.
C9_Deduplication ==
    \A peer \in Peers, txid \in TxIds, preferred \in BOOLEAN, reqtime \in Times :
        m_announcements[txid][peer].m_state # "NOTHING"
        => /\ ReceivedInvNaive(m_announcements, m_current_sequence, peer, txid,
                               preferred, reqtime) = m_announcements
           /\ ReceivedInvSequence(m_announcements, m_current_sequence, peer, txid)
                = m_current_sequence

\* C9 witness: received_inv can still be called, and a duplicate with another
\* preferred flag and reqtime arrives for a COMPLETED announcement kept
\* beside a REQUESTED one, and for that REQUESTED one.
C9_Witness ==
    \E txid \in TxIds, p, q \in Peers :
        /\ m_current_sequence < MaxSeq
        /\ m_announcements[txid][p].m_state = "COMPLETED"
        /\ m_announcements[txid][q].m_state = "REQUESTED"
        /\ ReceivedInvNaive(m_announcements, m_current_sequence, p, txid,
                            ~m_announcements[txid][p].m_preferred,
                            1 - m_announcements[txid][p].m_time) = m_announcements
        /\ ReceivedInvNaive(m_announcements, m_current_sequence, q, txid,
                            ~m_announcements[txid][q].m_preferred,
                            1 - m_announcements[txid][q].m_time) = m_announcements

\* C10: after every public call no item is left with announcements that are
\* all Completed: such an item is erased at once, the Completed announcements
\* of peers other than the one named in the call included.
C10_NoItemOnlyCompleted ==
    \A txid \in TxIds :
        (\E peer \in Peers : m_announcements[txid][peer].m_state = "COMPLETED")
        => \E peer \in Peers :
              m_announcements[txid][peer].m_state \in {"CANDIDATE", "REQUESTED"}

\* C10 witness: an item holds the COMPLETED announcement of one peer beside
\* the last CANDIDATE, of another peer; disconnected_peer for that other peer
\* erases the COMPLETED announcement too.
C10_Witness ==
    \E txid \in TxIds, p, q \in Peers :
        /\ p # q
        /\ m_announcements[txid][p].m_state = "COMPLETED"
        /\ m_announcements[txid][q].m_state = "CANDIDATE"
        /\ \A r \in Peers \ {p, q} : m_announcements[txid][r].m_state = "NOTHING"
        /\ DisconnectedPeerNaive(m_announcements, q)[txid][p].m_state = "NOTHING"

\* The announcements after one public call on anns at time now, for every
\* call and every argument.
AfterAnyCall(anns, sequence, now) ==
    {ReceivedInvNaive(anns, sequence, peer, txid, preferred, reqtime) :
        peer \in Peers, txid \in TxIds, preferred \in BOOLEAN, reqtime \in Times}
    \cup {RequestedTxNaive(anns, peer, txid, exptime) :
            peer \in Peers, txid \in TxIds, exptime \in Times}
    \cup {ReceivedResponseNaive(anns, peer, txid) : peer \in Peers, txid \in TxIds}
    \cup {ForgetTxIdNaive(anns, txid) : txid \in TxIds}
    \cup {DisconnectedPeerNaive(anns, peer) : peer \in Peers}
    \cup {GetRequestableNaive(anns, now, peer).anns : peer \in Peers}

\* C11: a peer whose announcement for an item is Completed (the item then
\* has a non-Completed announcement, by C10) is not returned the item by
\* get_requestable at any now, also not after it re-announces the item with
\* received_inv, whatever the arguments; and every public call leaves the
\* announcement Completed or erases it, so this lasts until it is erased.
C11_CompletedBlocksReannouncement ==
    \A txid \in TxIds, peer \in Peers :
        m_announcements[txid][peer].m_state = "COMPLETED"
        => /\ \A now \in Times :
                 txid \notin Range(GetRequestableNaive(m_announcements, now, peer).result)
           /\ \A preferred \in BOOLEAN, reqtime \in Times, now \in Times :
                 txid \notin Range(GetRequestableNaive(
                     ReceivedInvNaive(m_announcements, m_current_sequence, peer,
                                      txid, preferred, reqtime),
                     now, peer).result)
           /\ \A after \in AfterAnyCall(m_announcements, m_current_sequence, m_now) :
                 after[txid][peer].m_state \in {"COMPLETED", "NOTHING"}

\* C11 witness: a peer's announcement is COMPLETED, its priority is higher
\* than that of the only other announcement of the item, a candidate whose
\* time has come, and received_inv can still be called: the peer would be
\* selected if its re-announcement counted.
C11_Witness ==
    \E txid \in TxIds, p, q \in Peers :
        /\ m_current_sequence < MaxSeq
        /\ m_announcements[txid][p].m_state = "COMPLETED"
        /\ m_announcements[txid][q].m_state = "CANDIDATE"
        /\ m_announcements[txid][q].m_time <= m_now
        /\ m_announcements[txid][p].m_priority > m_announcements[txid][q].m_priority
        /\ \A r \in Peers \ {p, q} : m_announcements[txid][r].m_state = "NOTHING"
        /\ GetRequestableNaive(m_announcements, m_now, q).result = <<txid>>

\* C12: disconnected_peer(peer) erases every announcement of the peer, in any
\* state (Count(peer) = 0 afterwards), and for every item where the peer was
\* the best candidate or held the Requested announcement, the remaining
\* candidate with time <= now of the highest priority is returned by the next
\* get_requestable for its own peer at the same now.
C12_DisconnectedPeerHandsOver ==
    \A peer \in Peers :
        LET after == DisconnectedPeerNaive(m_announcements, peer)
            Viable(q, txid) == /\ after[txid][q].m_state = "CANDIDATE"
                               /\ after[txid][q].m_time <= m_now
        IN /\ Tracked(after, peer) = 0
           /\ \A txid \in TxIds : after[txid][peer].m_state = "NOTHING"
           /\ \A txid \in TxIds, q \in Peers :
                 (/\ SubState(m_announcements, m_now, txid, peer)
                        \in {"CandidateBest", "REQUESTED"}
                  /\ Viable(q, txid)
                  /\ \A r \in Peers \ {q} :
                        Viable(r, txid)
                        => after[txid][r].m_priority < after[txid][q].m_priority)
                 => txid \in Range(GetRequestableNaive(after, m_now, q).result)

\* C12 witness: a peer holds the unexpired request for an item that has two
\* candidates whose time has come; neither is returned the item before, and
\* after disconnected_peer the one of higher priority is.
C12_Witness ==
    \E peer, q, r \in Peers, txid \in TxIds :
        LET after == DisconnectedPeerNaive(m_announcements, peer)
        IN /\ q # r
           /\ m_announcements[txid][peer].m_state = "REQUESTED"
           /\ m_announcements[txid][peer].m_time > m_now
           /\ m_announcements[txid][q].m_state = "CANDIDATE"
           /\ m_announcements[txid][r].m_state = "CANDIDATE"
           /\ m_announcements[txid][q].m_time <= m_now
           /\ m_announcements[txid][r].m_time <= m_now
           /\ m_announcements[txid][q].m_priority > m_announcements[txid][r].m_priority
           /\ GetRequestableNaive(m_announcements, m_now, q).result = <<>>
           /\ GetRequestableNaive(after, m_now, q).result = <<txid>>
           /\ GetRequestableNaive(after, m_now, r).result = <<>>

\* forget_item(item) erases every announcement of the item, whatever its
\* state, and leaves the announcements of every other item as they were;
\* a received_inv for the item that follows, from any peer, creates a
\* candidate with the arguments of the call whose sequence number is greater
\* than that of every announcement there is.
ForgetThenFresh(txid) ==
    LET after == ForgetTxIdNaive(m_announcements, txid)
    IN /\ \A peer \in Peers : after[txid][peer].m_state = "NOTHING"
       /\ \A other \in TxIds \ {txid} : after[other] = m_announcements[other]
       /\ \A peer \in Peers, preferred \in BOOLEAN, reqtime \in Times :
             LET created == ReceivedInvNaive(after, m_current_sequence, peer,
                                             txid, preferred, reqtime)
             IN /\ created[txid][peer] =
                      [m_state |-> "CANDIDATE", m_time |-> reqtime,
                       m_preferred |-> preferred,
                       m_sequence |-> m_current_sequence,
                       m_priority |-> ComputePriority(txid, peer, preferred)]
                /\ ReceivedInvSequence(after, m_current_sequence, peer, txid)
                      = m_current_sequence + 1
                /\ \A t \in TxIds, p \in Peers :
                      (t # txid \/ p # peer) => created[t][p] = after[t][p]
                /\ \A t \in TxIds, p \in Peers :
                      m_announcements[t][p].m_state # "NOTHING"
                      => m_announcements[t][p].m_sequence < created[txid][peer].m_sequence

\* C13: forget_item(item) erases every announcement for the item regardless
\* of state and leaves every announcement of every other item unchanged;
\* afterwards received_inv(peer, item, ...) from any peer, one whose
\* announcement had been Requested or Completed included, creates a fresh
\* candidate whose sequence number is greater than every sequence number
\* assigned before (the sequence counter never decreases, and every number
\* assigned is below it).
C13_ForgetThenFreshAnnouncement ==
    /\ [](\A txid \in TxIds : ForgetThenFresh(txid))
    /\ [][m_current_sequence' >= m_current_sequence]_vars

\* C13 witness: an item holds a REQUESTED and a COMPLETED announcement and
\* received_inv can still be called; forget_item wipes both, and the peer
\* whose announcement was COMPLETED then gets a fresh candidate.
C13_Witness ==
    \E txid \in TxIds, p, q \in Peers :
        /\ m_current_sequence < MaxSeq
        /\ m_announcements[txid][p].m_state = "REQUESTED"
        /\ m_announcements[txid][q].m_state = "COMPLETED"
        /\ ReceivedInvNaive(ForgetTxIdNaive(m_announcements, txid),
                            m_current_sequence, q, txid, TRUE, m_now)
                [txid][q].m_state = "CANDIDATE"
        /\ ReceivedInvNaive(ForgetTxIdNaive(m_announcements, txid),
                            m_current_sequence, q, txid, TRUE, m_now)
                [txid][p].m_state = "NOTHING"

\* C14: whenever an item has no Requested announcement and has, with
\* time <= now, both a candidate created with preferred = true and a
\* candidate created with preferred = false, get_requestable(_, now) does not
\* return the item for the peer of the non-preferred candidate.
C14_PreferredOutranks ==
    \A txid \in TxIds, now \in Times, p, q \in Peers :
        (/\ \A r \in Peers : m_announcements[txid][r].m_state # "REQUESTED"
         /\ m_announcements[txid][p].m_state = "CANDIDATE"
         /\ m_announcements[txid][p].m_preferred
         /\ m_announcements[txid][p].m_time <= now
         /\ m_announcements[txid][q].m_state = "CANDIDATE"
         /\ ~m_announcements[txid][q].m_preferred
         /\ m_announcements[txid][q].m_time <= now)
        => txid \notin Range(GetRequestableNaive(m_announcements, now, q).result)

\* C14 witness: a preferred and a non-preferred candidate of an item whose
\* time has come, the non-preferred one with the higher PriorityHash; the
\* item is returned for the peer of the preferred one.
C14_Witness ==
    \E txid \in TxIds, p, q \in Peers :
        /\ \A r \in Peers : m_announcements[txid][r].m_state # "REQUESTED"
        /\ m_announcements[txid][p].m_state = "CANDIDATE"
        /\ m_announcements[txid][p].m_preferred
        /\ m_announcements[txid][p].m_time <= m_now
        /\ m_announcements[txid][q].m_state = "CANDIDATE"
        /\ ~m_announcements[txid][q].m_preferred
        /\ m_announcements[txid][q].m_time <= m_now
        /\ PriorityHash(txid, q) > PriorityHash(txid, p)
        /\ GetRequestableNaive(m_announcements, m_now, p).result = <<txid>>

\* A call that names the announcement of (peer, txid): a requested_tx or a
\* received_response for the pair, a requested_tx of another peer's
\* candidate for the txid (which supersedes a request), forget_item for the
\* txid or disconnected_peer for the peer.
ExplicitEventOn(peer, txid) ==
    \/ \E exptime \in Times :
          m_announcements' = RequestedTxNaive(m_announcements, peer, txid, exptime)
    \/ \E other \in Peers \ {peer}, exptime \in Times :
          /\ m_announcements[txid][other].m_state = "CANDIDATE"
          /\ m_announcements[txid][peer].m_state = "REQUESTED"
          /\ m_announcements' =
                RequestedTxNaive(m_announcements, other, txid, exptime)
    \/ m_announcements' = ReceivedResponseNaive(m_announcements, peer, txid)
    \/ m_announcements' = ForgetTxIdNaive(m_announcements, txid)
    \/ m_announcements' = DisconnectedPeerNaive(m_announcements, peer)

\* The expiry of get_requestable for the announcement of (peer, txid).
ExpiryOf(peer, txid) ==
    /\ m_announcements[txid][peer].m_state = "REQUESTED"
    /\ m_announcements[txid][peer].m_time <= m_now
    /\ m_now' = m_now
    /\ \E queried \in Peers :
          m_announcements' =
             GetRequestableNaive(m_announcements, m_now, queried).anns

\* A step changes a stored announcement only by a call that names it or by
\* the expiry of get_requestable, and a step that changes the clock changes
\* no announcement.
OnlyGetRequestableIsTimeDriven ==
    /\ m_now' # m_now => m_announcements' = m_announcements
    /\ \A txid \in TxIds, peer \in Peers :
          (/\ m_announcements[txid][peer].m_state \in {"CANDIDATE", "REQUESTED"}
           /\ m_announcements'[txid][peer] # m_announcements[txid][peer])
          => ExplicitEventOn(peer, txid) \/ ExpiryOf(peer, txid)

\* C15: only get_requestable performs time-driven changes. No received_inv,
\* requested_tx, received_response, forget_item or disconnected_peer and no
\* change of the clock changes an announcement because of elapsed time: a
\* candidate or Requested announcement changes only by a call that names it
\* or by the expiry of get_requestable. A requested_tx with exptime <= now
\* leaves the announcement Requested, and a Requested announcement whose
\* exptime has passed is counted by count_in_flight.
C15_OnlyGetRequestableIsTimeDriven ==
    /\ [](\A txid \in TxIds, peer \in Peers :
            /\ \A exptime \in 0 .. m_now :
                  m_announcements[txid][peer].m_state = "CANDIDATE"
                  => LET after == RequestedTxNaive(m_announcements, peer, txid, exptime)
                     IN /\ after[txid][peer].m_state = "REQUESTED"
                        /\ InFlight(after, peer) = InFlight(m_announcements, peer) + 1
            /\ (/\ m_announcements[txid][peer].m_state = "REQUESTED"
                /\ m_announcements[txid][peer].m_time <= m_now)
               => InFlight(m_announcements, peer) >= 1)
    /\ [][OnlyGetRequestableIsTimeDriven]_vars

\* C15 witness: a request whose exptime has passed is still REQUESTED and
\* counted in flight, beside a candidate of the item whose time has come
\* and which no get_requestable has yet made the fallback.
C15_Witness ==
    \E txid \in TxIds, p, q \in Peers :
        /\ m_announcements[txid][p].m_state = "REQUESTED"
        /\ m_announcements[txid][p].m_time < m_now
        /\ InFlight(m_announcements, p) = 1
        /\ m_announcements[txid][q].m_state = "CANDIDATE"
        /\ m_announcements[txid][q].m_time = m_now
        /\ GetRequestableNaive(m_announcements, m_now, q).expected_expired = <<<<p, txid>>>>

\* C16: calls that do not apply are no-ops that leave every announcement as
\* it is: requested_tx for a pair that is absent, already Requested (its
\* exptime is not updated) or Completed; received_response for an absent
\* pair; forget_item for an item without announcements; disconnected_peer
\* for a peer without announcements.
C16_InapplicableCallsAreNoOps ==
    /\ \A peer \in Peers, txid \in TxIds, exptime \in Times :
          m_announcements[txid][peer].m_state \in {"NOTHING", "REQUESTED", "COMPLETED"}
          => RequestedTxNaive(m_announcements, peer, txid, exptime) = m_announcements
    /\ \A peer \in Peers, txid \in TxIds :
          m_announcements[txid][peer].m_state = "NOTHING"
          => ReceivedResponseNaive(m_announcements, peer, txid) = m_announcements
    /\ \A txid \in TxIds :
          (\A peer \in Peers : m_announcements[txid][peer].m_state = "NOTHING")
          => ForgetTxIdNaive(m_announcements, txid) = m_announcements
    /\ \A peer \in Peers :
          (\A txid \in TxIds : m_announcements[txid][peer].m_state = "NOTHING")
          => DisconnectedPeerNaive(m_announcements, peer) = m_announcements

\* C16 witness: an item with a REQUESTED announcement, a COMPLETED one and
\* an absent pair, whose peer has no announcement at all, beside an item
\* without announcements; a requested_tx for the REQUESTED pair with another
\* exptime changes nothing.
C16_Witness ==
    \E txid, unknown \in TxIds, p, q, r \in Peers :
        /\ m_announcements[txid][p].m_state = "REQUESTED"
        /\ m_announcements[txid][q].m_state = "COMPLETED"
        /\ \A t \in TxIds : m_announcements[t][r].m_state = "NOTHING"
        /\ \A peer \in Peers : m_announcements[unknown][peer].m_state = "NOTHING"
        /\ RequestedTxNaive(m_announcements, p, txid,
                            1 - m_announcements[txid][p].m_time) = m_announcements

\* C17: in every state between public calls and at every now, each item has
\* at most one CandidateBest announcement; one exists if and only if the item
\* has no Requested announcement and at least one announcement in
\* CandidateReady/CandidateBest; and its priority is >= the priority of
\* every CandidateReady announcement of the item.
C17_CandidateBestInvariant ==
    \A txid \in TxIds, now \in Times :
        LET State(peer) == SubState(m_announcements, now, txid, peer)
            bests == {peer \in Peers : State(peer) = "CandidateBest"}
            readies == {peer \in Peers : State(peer) = "CandidateReady"}
        IN /\ Cardinality(bests) <= 1
           /\ bests # {}
                <=> /\ \A peer \in Peers : State(peer) # "REQUESTED"
                    /\ bests \cup readies # {}
           /\ \A best \in bests, ready \in readies :
                 m_announcements[txid][best].m_priority
                    >= m_announcements[txid][ready].m_priority

\* C17 witness: an item has a CandidateBest, a CandidateReady of a peer
\* with a smaller number and a CandidateDelayed; a requested_tx for the
\* CandidateReady then leaves the item with a request in flight, a ready
\* candidate and no CandidateBest.
C17_Witness ==
    \E txid \in TxIds, best, ready, delayed \in Peers :
        /\ SubState(m_announcements, m_now, txid, best) = "CandidateBest"
        /\ SubState(m_announcements, m_now, txid, ready) = "CandidateReady"
        /\ SubState(m_announcements, m_now, txid, delayed) = "CandidateDelayed"
        /\ ready < best
        /\ LET after == RequestedTxNaive(m_announcements, ready, txid, MaxTime)
           IN /\ SubState(after, m_now, txid, best) = "CandidateReady"
              /\ SubState(after, m_now, txid, ready) = "REQUESTED"

\* C18: immediately after get_requestable(peer, now) returns, for any peer,
\* no announcement is Requested with time <= now and no announcement is
\* CandidateDelayed with time <= now: every candidate whose time has come
\* counts as ready, so that an item with such a candidate and no request in
\* flight is returned for one of the peers at this now.
C18_NoEarlyReady ==
    \A peer \in Peers :
        LET after == GetRequestableNaive(m_announcements, m_now, peer).anns
        IN \A txid \in TxIds, p \in Peers :
              /\ ~(/\ after[txid][p].m_state = "REQUESTED"
                   /\ after[txid][p].m_time <= m_now)
              /\ ~(/\ SubState(after, m_now, txid, p) = "CandidateDelayed"
                   /\ after[txid][p].m_time <= m_now)
              /\ (/\ after[txid][p].m_state = "CANDIDATE"
                  /\ after[txid][p].m_time <= m_now
                  /\ \A q \in Peers : after[txid][q].m_state # "REQUESTED")
                 => \E q \in Peers :
                       txid \in Range(GetRequestableNaive(after, m_now, q).result)

\* C18 witness: get_requestable is called for a peer while another peer's
\* request has time <= now and a third peer's candidate has time = now,
\* after the clock has moved; afterwards the request is no longer Requested
\* and the candidate is the selected one.
C18_Witness ==
    \E txid \in TxIds, peer, p, q \in Peers :
        LET after == GetRequestableNaive(m_announcements, m_now, peer).anns
        IN /\ peer # p /\ peer # q
           /\ m_now > 0
           /\ m_announcements[txid][p].m_state = "REQUESTED"
           /\ m_announcements[txid][p].m_time <= m_now
           /\ m_announcements[txid][q].m_state = "CANDIDATE"
           /\ m_announcements[txid][q].m_time = m_now
           /\ after[txid][p].m_state = "COMPLETED"
           /\ SubState(after, m_now, txid, q) = "CandidateBest"

\* The backward-clock case: get_requestable(peer, now) returns txid for the
\* peer, and the next call is get_requestable(peer, earlier) with earlier
\* below now and below the time (reqtime) of the peer's announcement.
PromotedThenClockBack(peer, txid, earlier) ==
    LET first == GetRequestableNaive(m_announcements, m_now, peer)
    IN /\ txid \in Range(first.result)
       /\ earlier < m_now
       /\ first.anns[txid][peer].m_time > earlier

\* C19 as stated: if the caller passes a now smaller than one passed earlier,
\* an announcement that was already promoted to CandidateReady/CandidateBest
\* is not demoted to CandidateDelayed even when its reqtime is greater than
\* the new now: get_requestable at the smaller now still returns it for its
\* peer when it is the best.
C19_NoDemotion_AsStated ==
    \A peer \in Peers, txid \in TxIds, earlier \in Times :
        PromotedThenClockBack(peer, txid, earlier)
        => LET first == GetRequestableNaive(m_announcements, m_now, peer)
           IN txid \in Range(GetRequestableNaive(first.anns, earlier, peer).result)

\* C19 (amended): if the caller passes a now smaller than one passed earlier,
\* a candidate whose reqtime is greater than the new now is delayed again:
\* get_requestable at the smaller now does not return it, although it was
\* returned before. The call at the smaller now changes no announcement, and
\* get_requestable at the former now returns the item for the peer again.
C19_DemotionOnBackwardClock ==
    \A peer \in Peers, txid \in TxIds, earlier \in Times :
        PromotedThenClockBack(peer, txid, earlier)
        => LET first == GetRequestableNaive(m_announcements, m_now, peer)
               second == GetRequestableNaive(first.anns, earlier, peer)
           IN /\ txid \notin Range(second.result)
              /\ SubState(second.anns, earlier, txid, peer) = "CandidateDelayed"
              /\ second.anns = first.anns
              /\ second.expected_expired = <<>>
              /\ txid \in Range(GetRequestableNaive(second.anns, m_now, peer).result)

\* C19 witness: the clock has moved forward, an announcement whose time is
\* the present now is returned for its peer, and a call at the earlier now 0
\* returns nothing for the peer.
C19_Witness ==
    \E peer \in Peers, txid \in TxIds :
        /\ PromotedThenClockBack(peer, txid, 0)
        /\ m_announcements[txid][peer].m_time = m_now
        /\ GetRequestableNaive(
              GetRequestableNaive(m_announcements, m_now, peer).anns, 0, peer).result
             = <<>>

\* C20: the sub-state of a candidate follows the now of the call that
\* observes it, in every reachable state and for every now, later or earlier
\* than the clock of the calls before. A candidate whose time is greater
\* than now is CandidateDelayed: get_requestable at now does not return it
\* and it is not the selected one. A candidate whose time is <= now is
\* CandidateReady or CandidateBest: get_requestable at now returns it for its
\* peer unless a request is in flight after the expiry at now or another
\* candidate with time <= now has a higher priority.
C20_SubStateTracksClock ==
    \A txid \in TxIds, peer \in Peers, now \in Times :
        m_announcements[txid][peer].m_state = "CANDIDATE"
        => LET got == GetRequestableNaive(m_announcements, now, peer)
               returned == txid \in Range(got.result)
               state == SubState(got.anns, now, txid, peer)
           IN IF m_announcements[txid][peer].m_time > now
              THEN /\ state = "CandidateDelayed"
                   /\ ~returned
                   /\ GetSelected(got.anns, now, txid) # peer
              ELSE /\ state \in {"CandidateReady", "CandidateBest"}
                   /\ (returned <=> (state = "CandidateBest"))
                   /\ \/ returned
                      \/ \E q \in Peers : got.anns[txid][q].m_state = "REQUESTED"
                      \/ \E q \in Peers \ {peer} :
                            /\ got.anns[txid][q].m_state = "CANDIDATE"
                            /\ got.anns[txid][q].m_time <= now
                            /\ got.anns[txid][q].m_priority
                                  > got.anns[txid][peer].m_priority

\* C20 witness: the clock has moved forward; an item has a candidate whose
\* time is the present now and which is returned for its peer, and a
\* candidate of lower priority whose time is 0; at the earlier now 0 the
\* first is delayed and the item is returned for the peer of the second.
C20_Witness ==
    \E txid \in TxIds, p, q \in Peers :
        /\ m_now > 0
        /\ m_announcements[txid][p].m_state = "CANDIDATE"
        /\ m_announcements[txid][p].m_time = m_now
        /\ m_announcements[txid][q].m_state = "CANDIDATE"
        /\ m_announcements[txid][q].m_time = 0
        /\ GetRequestableNaive(m_announcements, m_now, p).result = <<txid>>
        /\ GetRequestableNaive(m_announcements, m_now, q).result = <<>>
        /\ GetRequestableNaive(m_announcements, 0, p).result = <<>>
        /\ GetRequestableNaive(m_announcements, 0, q).result = <<txid>>

\* The announcements with the priorities of one txid replaced by prio: the
\* priority is the output of an oracle (ComputePriority), and no step of the
\* naive structure other than the selection reads it, so the reachable
\* tables under another oracle are the reachable ones with other priorities.
WithPriorities(anns, txid, prio) ==
    [t \in TxIds |-> [p \in Peers |->
        IF t = txid /\ anns[t][p].m_state # "NOTHING"
        THEN [anns[t][p] EXCEPT !.m_priority = prio[p]]
        ELSE anns[t][p]]]

\* get_requestable(peer, now) for every peer from peer on, in ascending
\* order, with no other event in between: the (peer, txid) pairs returned.
RECURSIVE QueryEveryPeer(_, _, _)
QueryEveryPeer(anns, now, peer) ==
    IF peer >= MAX_PEERS THEN {}
    ELSE LET got == GetRequestableNaive(anns, now, peer)
         IN {<<peer, txid>> : txid \in Range(got.result)}
            \cup QueryEveryPeer(got.anns, now, peer + 1)

\* Exclusive selection for one table of announcements, one txid and one now,
\* returned being the pairs that QueryEveryPeer returns for the table at now.
ExclusiveSelection(anns, returned, txid, now) ==
    LET offered == /\ \A peer \in Peers :
                         anns[txid][peer].m_state = "REQUESTED"
                         => anns[txid][peer].m_time <= now
                   /\ \E peer \in Peers :
                         /\ anns[txid][peer].m_state = "CANDIDATE"
                         /\ anns[txid][peer].m_time <= now
    IN Cardinality({peer \in Peers : <<peer, txid>> \in returned})
          = IF offered THEN 1 ELSE 0

\* C21: for any reachable state and any now, when get_requestable(p, now) is
\* evaluated for every peer p with no other event in between, each item is
\* returned for exactly one peer if, after the expiry at now, it has no
\* Requested announcement and has a candidate with time <= now, and for no
\* peer otherwise; this with the priorities the announcements have, and with
\* any other priorities, equal ones included (priorities are compared only
\* when the item has two or more candidates with time <= now).
C21_ExclusiveSelection ==
    \A now \in Times :
        /\ LET returned == QueryEveryPeer(m_announcements, now, 0)
           IN \A txid \in TxIds :
                 ExclusiveSelection(m_announcements, returned, txid, now)
        /\ \A txid \in TxIds :
              Cardinality({peer \in Peers :
                             /\ m_announcements[txid][peer].m_state = "CANDIDATE"
                             /\ m_announcements[txid][peer].m_time <= now}) >= 2
              => \A prio \in [Peers -> {0, 1}] :
                    LET other == WithPriorities(m_announcements, txid, prio)
                        returned == QueryEveryPeer(other, now, 0)
                    IN ExclusiveSelection(other, returned, txid, now)

\* C21 witness: an item has a request that expires at now and two candidates
\* whose time has come; it is returned for one of their peers, also when
\* both have the same priority, and it was returned for none before expiry.
C21_Witness ==
    \E txid \in TxIds, p, q, r \in Peers :
        LET equal == WithPriorities(m_announcements, txid, [peer \in Peers |-> 1])
        IN /\ q < r
           /\ m_now > 0
           /\ m_announcements[txid][p].m_state = "REQUESTED"
           /\ m_announcements[txid][p].m_time = m_now
           /\ m_announcements[txid][q].m_state = "CANDIDATE"
           /\ m_announcements[txid][r].m_state = "CANDIDATE"
           /\ m_announcements[txid][q].m_time <= m_now - 1
           /\ m_announcements[txid][r].m_time <= m_now - 1
           /\ QueryEveryPeer(m_announcements, m_now - 1, 0) = {}
           /\ Cardinality(QueryEveryPeer(m_announcements, m_now, 0)) = 1
           /\ QueryEveryPeer(equal, m_now, 0) = {<<q, txid>>}

\* C22: get_requestable is idempotent at a fixed now: of two calls
\* get_requestable(peer, now) in a row with no event in between, the second
\* returns the same ordered item list as the first, returns an empty expired
\* set, and leaves every announcement and every counter unchanged.
C22_GetRequestableIdempotent ==
    \A peer \in Peers, now \in Times :
        LET first == GetRequestableNaive(m_announcements, now, peer)
            second == GetRequestableNaive(first.anns, now, peer)
        IN /\ second.result = first.result
           /\ second.expected_expired = <<>>
           /\ second.anns = first.anns
           /\ Total(second.anns) = Total(first.anns)
           /\ \A p \in Peers :
                 /\ Tracked(second.anns, p) = Tracked(first.anns, p)
                 /\ InFlight(second.anns, p) = InFlight(first.anns, p)
                 /\ Candidates(second.anns, p) = Candidates(first.anns, p)

\* C22 witness: the first call expires the request of another peer, which
\* makes the queried peer the fallback for that item, and returns two items;
\* the second call returns the same two items.
C22_Witness ==
    \E peer \in Peers :
        LET first == GetRequestableNaive(m_announcements, m_now, peer)
            second == GetRequestableNaive(first.anns, m_now, peer)
        IN /\ Len(first.result) = 2
           /\ Len(first.expected_expired) = 1
           /\ first.expected_expired[1][1] # peer
           /\ first.anns # m_announcements
           /\ second.result = first.result

====
